---------------------------- MODULE Spec2Model ----------------------------
(***************************************************************************)
(* A model of the Tecplot frame parser of parse.c: the slice (byte view)   *)
(* helpers, the libc routines they rest on, read_tecplot_frame and the     *)
(* loop of process_tecplot_data.                                           *)
(*                                                                         *)
(* Text is a sequence of one-character strings.  A slice_t is a record     *)
(* [len, buf] whose buf is the 0-based offset of its first byte in the     *)
(* file buffer `contents`; the byte after the buffer's last one is the     *)
(* NUL that read_file's calloc(len+1) leaves there.                        *)
(*                                                                         *)
(* A double is a record [n, d] standing for n/d in lowest terms (d > 0),   *)
(* for +inf / -inf (n = 1 / -1, d = 0) and for NaN (n = 0, d = 0).  The    *)
(* arithmetic is IEEE-754's on these values without rounding and without   *)
(* the sign of zero.                                                       *)
(***************************************************************************)
EXTENDS Integers, Sequences, FiniteSets, TLC

VARIABLES
    inp,                \* the description the file text was written from
    contents,           \* process_tecplot_data: the file buffer
    str,                \* process_tecplot_data: the cursor slice
    frame_count,        \* process_tecplot_data: i, the frames returned
    pc,                 \* the position in the code
    s,                  \* read_tecplot_frame: the local cursor
    line,               \* read_tecplot_frame: the current line (or pair rest)
    variables,          \* read_tecplot_frame: variables[0 .. num_vars-1]
    num_nodes, num_cells, first_cell, last_cell,
    num_node_vars, num_cell_vars,
    node_data, cell_data, cell_connectivity, weights,
    k,                  \* the running loop index (i of the three read loops)
    itp_vars, interp_data,
    node_reads,         \* every index node_data was read at (history)
    stream,             \* parse2.c read_tecplot_file: the stream FILE *f
    linebuf,            \* parse2.c read_tecplot_frame: char linebuf[80]
    frame_buf,          \* parse2.c read_tecplot_frame: buf, the frame's bytes
    linenum,            \* parse2.c read_tecplot_frame: the loop counter
    frames,             \* every frame read_tecplot_file got (history)
    parent,             \* a call on a slice: the slice it was called with
    ret,                \* a call on a slice: the value it returned
    line_reads          \* read_tecplot_frame: the slice_getline calls so far
                        \* in the current call (history)

\* the locals of the frame splitter of parse2.c
splitter_vars == <<stream, linebuf, frame_buf, linenum, frames>>

\* a single call of a slice function
call_vars == <<parent, ret>>

vars == <<inp, contents, str, frame_count, pc, s, line, variables,
          num_nodes, num_cells, first_cell, last_cell,
          num_node_vars, num_cell_vars,
          node_data, cell_data, cell_connectivity, weights,
          k, itp_vars, interp_data, node_reads, splitter_vars, call_vars,
          line_reads>>

-----------------------------------------------------------------------------
(* Characters and libc *)

NUL == "NUL"
NL == "\n"
QUOTE == "\""

Digit == <<"0", "1", "2", "3", "4", "5", "6", "7", "8", "9">>

DigitChars == {Digit[i] : i \in 1..10}

DigitValue(c) == (CHOOSE i \in 1..10 : Digit[i] = c) - 1

\* the white space of the C locale that the model's texts can hold (\v and \f
\* do not occur in them)
SpaceChars == {" ", "\t", "\n", "\r"}

isspace(c) == c \in SpaceChars

\* the byte at offset p of the NUL-terminated file buffer
MemAt(p) == IF 0 <= p /\ p < Len(contents) THEN contents[p + 1] ELSE NUL

\* the first offset at or after p whose byte is NUL or, according to `within`,
\* lies in or lies outside the set of bytes `set`
FirstOffset(p, set, within) ==
    CHOOSE q \in p..(IF p < Len(contents) THEN Len(contents) ELSE p) :
        /\ MemAt(q) = NUL \/ (MemAt(q) \in set) = within
        /\ \A r \in p..(q - 1) :
              ~(MemAt(r) = NUL \/ (MemAt(r) \in set) = within)

strcspn(p, reject) == FirstOffset(p, reject, TRUE) - p

strspn(p, accept) == FirstOffset(p, accept, FALSE) - p

\* strncmp(lit, contents + p, n) == 0 for a NUL-terminated literal lit: the
\* bytes agree up to n of them or up to the literal's NUL
strncmp_eq(lit, p, n) ==
    LET LitAt(j) == IF j <= Len(lit) THEN lit[j] ELSE NUL
    IN  \A j \in 1..n :
            (\A i \in 1..(j - 1) : LitAt(i) /= NUL) => LitAt(j) = MemAt(p + j - 1)

\* the number of byte pairs strncmp(lit, contents + p, n) compares: up to the
\* first pair that differs or the literal's NUL, and n of them otherwise
strncmp_compared(lit, p, n) ==
    LET LitAt(j) == IF j <= Len(lit) THEN lit[j] ELSE NUL
        Stops == {j \in 1..n : LitAt(j) /= MemAt(p + j - 1) \/ LitAt(j) = NUL}
    IN  IF Stops = {} THEN n ELSE CHOOSE j \in Stops : \A m \in Stops : j <= m

SkipSpace(p) == FirstOffset(p, SpaceChars, FALSE)

DigitsEnd(p) == FirstOffset(p, DigitChars, FALSE)

\* the value of the decimal digits at offsets p .. e-1
RECURSIVE DigitsValue(_, _)
DigitsValue(p, e) ==
    IF e <= p THEN 0
    ELSE 10 * DigitsValue(p, e - 1) + DigitValue(MemAt(e - 1))

\* atoi: white space, an optional sign, decimal digits; 0 when there are none
atoi(p) ==
    LET q == SkipSpace(p)
        r == IF MemAt(q) \in {"-", "+"} THEN q + 1 ELSE q
    IN  (IF MemAt(q) = "-" THEN -1 ELSE 1) * DigitsValue(r, DigitsEnd(r))

-----------------------------------------------------------------------------
(* Doubles *)

RECURSIVE GCD(_, _)
GCD(a, b) == IF b = 0 THEN a ELSE GCD(b, a % b)

Abs(x) == IF x < 0 THEN -x ELSE x

Sign(x) == IF x < 0 THEN -1 ELSE IF x > 0 THEN 1 ELSE 0

\* n/d for d /= 0, in lowest terms with a positive denominator
Norm(n, d) ==
    LET g == GCD(Abs(n), Abs(d))
    IN  [n |-> Sign(d) * (n \div g), d |-> Abs(d) \div g]

\* (a/b) * (c/e) for b, e /= 0, the common factors taken out before the products
Ratio(a, b, c, e) ==
    LET g1 == GCD(Abs(a), Abs(b))
        g2 == GCD(Abs(c), Abs(e))
    IN  Norm((a \div g1) * (c \div g2), (b \div g1) * (e \div g2))

D(i) == [n |-> i, d |-> 1]

NaN == [n |-> 0, d |-> 0]

Inf(sgn) == [n |-> sgn, d |-> 0]

IsNaN(x) == x.d = 0 /\ x.n = 0

IsInf(x) == x.d = 0 /\ x.n /= 0

IsFinite(x) == x.d > 0

dadd(x, y) ==
    IF IsNaN(x) \/ IsNaN(y) THEN NaN
    ELSE IF IsInf(x) THEN (IF IsInf(y) /\ y.n /= x.n THEN NaN ELSE x)
    ELSE IF IsInf(y) THEN y
    ELSE LET g == GCD(x.d, y.d)
         IN  Norm(x.n * (y.d \div g) + y.n * (x.d \div g), (x.d \div g) * y.d)

dneg(x) == [n |-> -x.n, d |-> x.d]

dsub(x, y) == dadd(x, dneg(y))

dmul(x, y) ==
    IF IsNaN(x) \/ IsNaN(y) THEN NaN
    ELSE IF IsInf(x) \/ IsInf(y)
         THEN (IF x.n = 0 \/ y.n = 0 THEN NaN ELSE Inf(Sign(x.n) * Sign(y.n)))
    ELSE Ratio(x.n, y.d, y.n, x.d)

ddiv(x, y) ==
    IF IsNaN(x) \/ IsNaN(y) THEN NaN
    ELSE IF IsInf(x) THEN (IF IsInf(y) THEN NaN
                           ELSE Inf(x.n * (IF y.n < 0 THEN -1 ELSE 1)))
    ELSE IF IsInf(y) THEN D(0)
    ELSE IF y.n = 0 THEN (IF x.n = 0 THEN NaN ELSE Inf(Sign(x.n)))
    ELSE Ratio(x.n, y.n, y.d, x.d)

RECURSIVE Pow10(_)
Pow10(e) == IF e = 0 THEN 1 ELSE 10 * Pow10(e - 1)

\* atof: white space, an optional sign, digits, an optional fraction; 0.0 when
\* there is no number.  Exponents and the words inf/nan do not occur in the
\* model's texts and are not read.
atof(p) ==
    LET q == SkipSpace(p)
        r == IF MemAt(q) \in {"-", "+"} THEN q + 1 ELSE q
        sgn == IF MemAt(q) = "-" THEN -1 ELSE 1
        e == DigitsEnd(r)
        ip == DigitsValue(r, e)
        f == IF MemAt(e) = "." THEN e + 1 ELSE e
        fe == DigitsEnd(f)
        fp == DigitsValue(f, fe)
    IN  Norm(sgn * (ip * Pow10(fe - f) + fp), Pow10(fe - f))

-----------------------------------------------------------------------------
(* Slices *)

slice_n(buf, len) == [len |-> len, buf |-> buf]

\* what a failed assert leaves in place of an index or of a slice: the process
\* has aborted
ASSERT_FAILED == -1

Aborted(sl) == sl.len = ASSERT_FAILED

\* get_slice_index with its assert compiled out
get_slice_index_Unchecked(i, len) == IF i >= 0 THEN i ELSE len + i

get_slice_index(i, len) ==
    LET j == IF i >= 0 THEN i ELSE len + i
    IN  IF 0 <= j /\ j <= len THEN j ELSE ASSERT_FAILED

reslice(sl, i, j) ==
    LET a == get_slice_index(i, sl.len)
        b == get_slice_index(j, sl.len)
    IN  IF a = ASSERT_FAILED \/ b = ASSERT_FAILED \/ ~(a <= b)
        THEN slice_n(ASSERT_FAILED, ASSERT_FAILED)
        ELSE slice_n(sl.buf + a, b - a)

slice_prefix(sl, i) ==
    LET j == get_slice_index(i, sl.len)
    IN  IF j = ASSERT_FAILED THEN slice_n(ASSERT_FAILED, ASSERT_FAILED)
        ELSE slice_n(sl.buf, j)

slice_suffix(sl, i) ==
    LET j == get_slice_index(i, sl.len)
    IN  IF j = ASSERT_FAILED THEN slice_n(ASSERT_FAILED, ASSERT_FAILED)
        ELSE slice_n(sl.buf + j, sl.len - j)

\* sl_idx for an index the callers keep in [0, len)
sl_idx(sl, i) == MemAt(sl.buf + get_slice_index(i, sl.len))

\* sl_eq against a slice of a string literal (another buffer: the pointers differ)
sl_eq(sl, lit) == sl.len = Len(lit) /\ strncmp_eq(lit, sl.buf, sl.len)

\* for (i = 0; i < s->len && isspace(sl_idx(*s, i)); i++);
LeadingSpaces(sl) ==
    CHOOSE i \in 0..sl.len :
        /\ i = sl.len \/ ~isspace(sl_idx(sl, i))
        /\ \A j \in 0..(i - 1) : isspace(sl_idx(sl, j))

\* the loop of sl_rstrip read as a count of the bytes it steps over
TrailingStart_CountRemoved(sl) ==
    sl.len - (CHOOSE i \in 0..sl.len :
                 /\ i = 0 \/ ~isspace(sl_idx(sl, i - 1))
                 /\ \A j \in i..(sl.len - 1) : isspace(sl_idx(sl, j)))

\* for (i = s->len - 1; i >= 0 && isspace(sl_idx(*s, i)); i--); i++;
TrailingStart(sl) ==
    CHOOSE i \in 0..sl.len :
        /\ i = 0 \/ ~isspace(sl_idx(sl, i - 1))
        /\ \A j \in i..(sl.len - 1) : isspace(sl_idx(sl, j))

sl_lstrip(sl) == LeadingSpaces(sl)

slice_lstrip(sl) == slice_suffix(sl, sl_lstrip(sl))

sl_rstrip(sl) == TrailingStart(sl)

slice_rstrip(sl) == slice_prefix(sl, sl_rstrip(sl))

slice_strip(sl) == slice_rstrip(slice_lstrip(sl))

\* sl_strip: orig_len - s->len
sl_strip(sl) == sl.len - slice_strip(sl).len

sl_cspan(sl, reject) ==
    LET idx == strcspn(sl.buf, reject) IN IF idx > sl.len THEN sl.len ELSE idx

sl_span(sl, accept) ==
    LET idx == strspn(sl.buf, accept) IN IF idx > sl.len THEN sl.len ELSE idx

\* slice_tok: the token it returns, and the slice it leaves in *s
slice_tok(sl, delimiters) == slice_prefix(sl, sl_cspan(sl, delimiters))

\* slice_tok stepping over one delimiter byte instead of the run of them
slice_tok_rest_OneDelimiter(sl, delimiters) ==
    LET suffix == slice_suffix(sl, sl_cspan(sl, delimiters))
    IN  slice_suffix(suffix, IF sl_span(suffix, delimiters) > 0 THEN 1 ELSE 0)

slice_tok_rest(sl, delimiters) ==
    LET suffix == slice_suffix(sl, sl_cspan(sl, delimiters))
    IN  slice_suffix(suffix, sl_span(suffix, delimiters))

slice_getline(sl) == slice_tok(sl, {"\r", "\n"})

slice_getline_rest(sl) == slice_tok_rest(sl, {"\r", "\n"})

\* sl_startswith(s, x) for x a slice of a string literal: strncmp(x.buf, s.buf, x.len)
sl_startswith(sl, lit) == strncmp_eq(lit, sl.buf, Len(lit))

\* the bytes a slice views
Text(sl) == [i \in 1..sl.len |-> MemAt(sl.buf + i - 1)]

-----------------------------------------------------------------------------
(* The input files: each is written from a description `inp` in the format  *)
(* of the Tecplot files the program reads.                                   *)

MaxNodes == 5          \* the most nodes a frame declares
MaxCells == 1          \* the most elements a frame declares
MaxNodeVars == 3       \* the most nodal variables (a-1)
MaxCellVars == 2       \* the most native cell-centered variables (b-a+1)
MaxTrunc == 2          \* the most lines cut from the end of a file

\* int cell_size = 4: the nodes of an element
cell_size == 4

MinNodes == cell_size

txtTITLE == <<"T", "I", "T", "L", "E">>
txtVARIABLES == <<"V", "A", "R", "I", "A", "B", "L", "E", "S">>
txtZONE == <<"Z", "O", "N", "E">>
txtCELLCENTERED == <<"C", "E", "L", "L", "C", "E", "N", "T", "E", "R", "E", "D">>
txtVARLOCATION == <<"V", "A", "R", "L", "O", "C", "A", "T", "I", "O", "N">>
txtN == <<"N">>
txtE == <<"E">>

\* the variable names of a file, in file order
Names == << <<"Z">>, <<"R">>, <<"P">>, <<"T", "e">>, <<"n", "e">>, <<"p", "h", "i">>, <<"J", "z">>, <<"B", "x">> >>

RECURSIVE Dec(_)
Dec(n) == IF n < 0 THEN <<"-">> \o Dec(-n)
          ELSE IF n < 10 THEN <<Digit[n + 1]>>
          ELSE Dec(n \div 10) \o <<Digit[(n % 10) + 1]>>

RECURSIVE Flatten(_, _)
Flatten(seqs, sep) ==
    IF seqs = <<>> THEN <<>>
    ELSE IF Len(seqs) = 1 THEN seqs[1]
    ELSE seqs[1] \o sep \o Flatten(Tail(seqs), sep)

\* the orders the three required pairs are written in
Orders == { <<"N", "E", "V">>, <<"V", "E", "N">>, <<"E", "V", "N">> }

Missing == {"none", "N", "E"}

\* the connectivity lines an element is written with, as file (1-indexed) values
Patterns(n) == { <<1, 2, 3, 4>>, <<1, 1, 1, 1>>, <<0, 1, 2, 3>>,
                 <<n - 3, n - 2, n - 1, n>>, <<n - 2, n - 1, n, n + 1>> }

\* the coordinates of node j (1-indexed): the unit square, then a diagonal
NodeCoord(j, c) ==
    IF j <= 4 THEN << <<0, 0>>, <<1, 0>>, <<1, 1>>, <<0, 1>> >>[j][c + 1]
    ELSE j - 3

\* the value of nodal variable v (0-indexed) at node j (1-indexed), as written
NodalValue(v, j) == IF v < 2 THEN NodeCoord(j, v) ELSE v + j - 2

NodalText(v, j) == Dec(NodalValue(v, j))

\* native cell variable c (0-indexed) of element i (0-indexed): (c+i+1).5
CellText(c, i) == Dec(c + i + 1) \o <<".", "5">>

CellValue(c, i) == Norm(2 * (c + i + 1) + 1, 2)

\* element 0 is written with the file's pattern, the others with 1 2 3 4
ConnValues(f, i) == IF i = 0 THEN f.pat ELSE <<1, 2, 3, 4>>

ConnText(f, i) ==
    Flatten([j \in 1..4 |-> Dec(ConnValues(f, i)[j])], <<" ">>)

PairText(f, key) ==
    CASE key = "N" -> txtN \o <<"=">> \o Dec(f.n)
      [] key = "E" -> txtE \o <<"=">> \o Dec(f.e)
      [] key = "V" -> txtVARLOCATION \o <<"=", "(", "[">> \o Dec(f.nv + 1)
                      \o <<"-">> \o Dec(f.nv + f.nc) \o <<"]", "=">>
                      \o txtCELLCENTERED \o <<")">>
      [] key = "T" -> <<"T", "=", "x">>
      [] key = "ET" -> <<"E", "T", "=", "Q", "U", "A", "D", "R", "I", "L", "A", "T", "E", "R", "A", "L">>
      [] key = "F" -> <<"F", "=", "F", "E", "B", "L", "O", "C", "K">>

\* the keys of the zone line, in order
ZoneKeys(f) ==
    LET req == SelectSeq(f.order, LAMBDA x : x /= f.missing)
    IN  IF f.extras
        THEN <<"T">> \o SubSeq(req, 1, 1) \o <<"ET">>
             \o SubSeq(req, 2, Len(req)) \o <<"F">>
        ELSE req

ZoneLine(f) ==
    txtZONE \o <<" ">>
    \o Flatten([i \in 1..Len(ZoneKeys(f)) |-> PairText(f, ZoneKeys(f)[i])],
               <<",", " ">>)

HeaderLines(f) ==
    << txtTITLE \o <<"=", QUOTE, "t", QUOTE>>,
       txtVARIABLES \o (IF f.eqsp THEN <<" ", "=", " ">> ELSE <<"=">>)
          \o <<QUOTE>> \o Names[1] \o <<QUOTE>> >>
    \o [i \in 1..(f.nv + f.nc - 1) |-> <<QUOTE>> \o Names[i + 1] \o <<QUOTE>>]
    \o << ZoneLine(f) >>

\* the numeric lines: nodal values, cell values, connectivity
DataLines(f) ==
    [i \in 1..(f.nv * f.n) |->
        NodalText((i - 1) \div f.n, ((i - 1) % f.n) + 1)]
    \o [i \in 1..(f.nc * f.e) |-> CellText((i - 1) \div f.e, (i - 1) % f.e)]
    \o [i \in 1..f.e |-> ConnText(f, i - 1)]

\* the lines of the frame f describes, less the f.trunc last ones
FrameLines(f) ==
    LET all == HeaderLines(f) \o DataLines(f)
    IN  SubSeq(all, 1, Len(all) - f.trunc)

\* the frame that follows the first one in the files of two frames
SecondFrame ==
    [eqsp |-> FALSE, order |-> <<"N", "E", "V">>, extras |-> FALSE,
     missing |-> "none", nv |-> 3, nc |-> 1, n |-> 5, e |-> 1,
     pat |-> <<1, 2, 3, 4>>, trunc |-> 0, more |-> FALSE]

FileLines(f) ==
    FrameLines(f) \o (IF f.more THEN FrameLines(SecondFrame) ELSE <<>>)

\* lines lo .. hi, each with its line end
RECURSIVE TextOf(_, _, _)
TextOf(lines, lo, hi) ==
    IF hi < lo THEN <<>>
    ELSE IF lo = hi THEN lines[lo] \o <<NL>>
    ELSE LET mid == (lo + hi) \div 2
         IN  TextOf(lines, lo, mid) \o TextOf(lines, mid + 1, hi)

FileText(f) == TextOf(FileLines(f), 1, Len(FileLines(f)))

\* header and zone line in every variant, over one regular element
HeaderFamily ==
    [eqsp : BOOLEAN, order : Orders, extras : BOOLEAN, missing : Missing,
     nv : 2..MaxNodeVars, nc : 1..MaxCellVars, n : {MinNodes}, e : {1},
     pat : {<<1, 2, 3, 4>>}, trunc : {0}, more : {FALSE}]

\* the plain header over every variant of the data
DataFamily ==
    UNION { [eqsp : {FALSE}, order : {<<"N", "E", "V">>}, extras : {FALSE},
             missing : {"none"}, nv : 2..MaxNodeVars, nc : 1..MaxCellVars,
             n : {n},
             e : 0..MaxCells, pat : Patterns(n), trunc : 0..MaxTrunc,
             more : {FALSE}]
            : n \in MinNodes..MaxNodes }

\* a first frame of any length and counts, followed by SecondFrame
FollowedFamily ==
    [eqsp : {FALSE}, order : {<<"N", "E", "V">>}, extras : {FALSE},
     missing : {"none"}, nv : 2..MaxNodeVars, nc : {1}, n : {MinNodes},
     e : 0..MaxCells, pat : {<<0, 1, 2, 3>>}, trunc : 0..MaxTrunc,
     more : {TRUE}]

\* the frame the cut files are written from
CutFrame ==
    [eqsp |-> FALSE, order |-> <<"N", "E", "V">>, extras |-> FALSE,
     missing |-> "none", nv |-> 2, nc |-> 1, n |-> MinNodes, e |-> 0,
     pat |-> <<1, 2, 3, 4>>, trunc |-> 0, more |-> FALSE]

\* a frame cut off anywhere from inside its nodal values back to its first
\* line (its ZONE line lost with the last nodal value), alone or followed by
\* SecondFrame
CutFamily ==
    { [CutFrame EXCEPT !.trunc = t, !.more = m] :
        t \in (MaxTrunc + 1)..Len(HeaderLines(CutFrame) \o DataLines(CutFrame)),
        m \in BOOLEAN }

Inputs ==
    HeaderFamily
    \cup { f \in DataFamily : f.e = 0 => f.pat = <<1, 2, 3, 4>> }
    \cup FollowedFamily
    \cup CutFamily

-----------------------------------------------------------------------------
(* process_tecplot_data and read_tecplot_frame *)

\* the static array of variables holds this many slices
MAX_VARS == 1024

\* what the frame's locals hold before read_tecplot_frame has set them
NoSlice == slice_n(0, 0)

\* calloc(n, size): n zeroed entries; NULL (no entry) for a count that is not
\* positive, a negative one being a huge size_t
Calloc(n, zero) == [i \in 1..(IF n > 0 THEN n ELSE 0) |-> zero]

Init ==
    /\ inp \in Inputs
    /\ contents = FileText(inp)
    /\ str = slice_n(0, Len(contents))
    /\ frame_count = 0
    /\ pc = "loop"
    /\ s = NoSlice
    /\ line = NoSlice
    /\ variables = <<>>
    /\ num_nodes = -1
    /\ num_cells = -1
    /\ first_cell = -1
    /\ last_cell = -1
    /\ num_node_vars = 0
    /\ num_cell_vars = 0
    /\ node_data = <<>>
    /\ cell_data = <<>>
    /\ cell_connectivity = <<>>
    /\ weights = <<>>
    /\ k = 0
    /\ itp_vars = <<>>
    /\ interp_data = <<>>
    /\ node_reads = {}
    /\ stream = [pos |-> 0, eof |-> FALSE]
    /\ linebuf = <<>>
    /\ frame_buf = <<>>
    /\ linenum = 0
    /\ frames = <<>>
    /\ parent = [len |-> 0, buf |-> 0]
    /\ ret = 0
    /\ line_reads = 0

frame_locals == <<line, variables, num_nodes, num_cells, first_cell, last_cell,
                  num_node_vars, num_cell_vars, node_data, cell_data,
                  cell_connectivity, weights, k, itp_vars, interp_data,
                  node_reads, line_reads>>

\* while (str.len > 0) { read_tecplot_frame(&str): slice_t s = *file_contents
EnterFrame ==
    /\ pc = "loop"
    /\ str.len > 0
    /\ s' = str
    /\ pc' = "title"
    /\ UNCHANGED <<inp, contents, str, frame_count, frame_locals>>
    /\ UNCHANGED <<splitter_vars, call_vars>>

\* the loop ends: free(contents); return i
ExitLoop ==
    /\ pc = "loop"
    /\ ~(str.len > 0)
    /\ pc' = "exit"
    /\ UNCHANGED <<inp, contents, str, frame_count, s, frame_locals>>
    /\ UNCHANGED <<splitter_vars, call_vars>>

\* strip first line (contains TITLE)
StripTitle ==
    /\ pc = "title"
    /\ s' = slice_getline_rest(s)
    /\ pc' = "first_var"
    /\ UNCHANGED <<inp, contents, str, frame_count, line, variables, num_nodes,
                   num_cells, first_cell, last_cell, num_node_vars,
                   num_cell_vars, node_data, cell_data, cell_connectivity,
                   weights, k, itp_vars, interp_data, node_reads>>
    /\ UNCHANGED <<splitter_vars, call_vars>>
    /\ line_reads' = line_reads + 1

\* the first variable entry: everything after '=', less its first and last byte
FirstVariable(ln) == reslice(slice_tok_rest(ln, {"="}), 1, -1)

\* NextVariable taking a line too short to hold two quotation marks as an
\* empty name
NextVariable_ShortLineAsEmpty(ln) ==
    IF Aborted(reslice(slice_strip(ln), 1, -1))
    THEN slice_n(slice_strip(ln).buf, 0)
    ELSE reslice(slice_strip(ln), 1, -1)

\* a later variable entry: the stripped line, less its first and last byte
NextVariable(ln) == reslice(slice_strip(ln), 1, -1)

\* read first variable (begins after "VARIABLES=")
ReadFirstVariable ==
    /\ pc = "first_var"
    /\ LET ln == slice_getline(s)
           v == FirstVariable(ln)
       IN  /\ s' = slice_getline_rest(s)
           /\ line' = slice_tok_rest(ln, {"="})
           /\ IF Aborted(v)
              THEN pc' = "aborted" /\ UNCHANGED variables
              ELSE pc' = "vars" /\ variables' = <<v>>
    /\ UNCHANGED <<inp, contents, str, frame_count, num_nodes, num_cells,
                   first_cell, last_cell, num_node_vars, num_cell_vars,
                   node_data, cell_data, cell_connectivity, weights, k,
                   itp_vars, interp_data, node_reads>>
    /\ UNCHANGED <<splitter_vars, call_vars>>
    /\ line_reads' = line_reads + 1

\* read remaining variables: one turn of the while loop
ReadVariable ==
    /\ pc = "vars"
    /\ LET ln == slice_getline(s)
           v == NextVariable(ln)
       IN  /\ s' = slice_getline_rest(s)
           /\ line' = ln
           /\ IF sl_startswith(ln, txtZONE)
              THEN pc' = "zone" /\ UNCHANGED variables
              ELSE IF Aborted(v)
              THEN pc' = "aborted" /\ UNCHANGED variables
              ELSE IF Len(variables) >= MAX_VARS
              THEN pc' = "crashed" /\ UNCHANGED variables
              ELSE pc' = "vars" /\ variables' = Append(variables, v)
    /\ UNCHANGED <<inp, contents, str, frame_count, num_nodes, num_cells,
                   first_cell, last_cell, num_node_vars, num_cell_vars,
                   node_data, cell_data, cell_connectivity, weights, k,
                   itp_vars, interp_data, node_reads>>
    /\ UNCHANGED <<splitter_vars, call_vars>>
    /\ line_reads' = line_reads + 1

\* parse zone string: the locals, and the line past the keyword
BeginZone ==
    /\ pc = "zone"
    /\ LET rest == slice_suffix(line, Len(txtZONE))
       IN  IF Aborted(rest)
           THEN pc' = "aborted" /\ UNCHANGED line
           ELSE pc' = "pairs" /\ line' = slice_strip(rest)
    /\ num_nodes' = -1
    /\ num_cells' = -1
    /\ first_cell' = -1
    /\ last_cell' = -1
    /\ UNCHANGED <<inp, contents, str, frame_count, s, variables,
                   num_node_vars, num_cell_vars, node_data, cell_data,
                   cell_connectivity, weights, k, itp_vars, interp_data,
                   node_reads>>
    /\ UNCHANGED <<splitter_vars, call_vars>>
    /\ UNCHANGED line_reads

\* the "a-b" of a VARLOCATION value "([a-b]=CELLCENTERED)"
VarlocRange(val) ==
    LET varloc_str == reslice(val, 1, -1)
    IN  IF Aborted(varloc_str) THEN varloc_str
        ELSE reslice(slice_tok(varloc_str, {"="}), 1, -1)

\* ParseCount with a count of 0 taken for a count that was not given
ParseCount_ZeroAsUnset(val) == IF atoi(val.buf) = 0 THEN -1 ELSE atoi(val.buf)

\* num_nodes = atoi(val.buf), num_cells = atoi(val.buf)
ParseCount(val) == atoi(val.buf)

FirstCell(range) == atoi(slice_tok(range, {"-"}).buf) - 1

\* LastCell with the upper end of the range left 1-indexed
LastCell_NotDecremented(range) == atoi(slice_tok_rest(range, {"-"}).buf)

LastCell(range) == atoi(slice_tok_rest(range, {"-"}).buf) - 1

\* one turn of the loop over the comma-separated key-value pairs; each local
\* is bound to its value in the order the body computes it
ParsePair ==
    /\ pc = "pairs"
    /\ \E pair \in {slice_tok(line, {",", " "})} :
       \E key \in {slice_tok(pair, {"="})} :
       \E val \in {slice_tok_rest(pair, {"="})} :
       \E isN \in {sl_eq(key, txtN)} :
       \E isE \in {~isN /\ sl_eq(key, txtE)} :
       \E isV \in {~isN /\ ~isE /\ sl_eq(key, txtVARLOCATION)} :
       \E range \in {IF isV THEN VarlocRange(val) ELSE NoSlice} :
           /\ line' = slice_tok_rest(line, {",", " "})
           /\ IF ~(pair.len > 0)
              THEN /\ pc' = "alloc"
                   /\ UNCHANGED <<num_nodes, num_cells, first_cell, last_cell>>
              ELSE /\ pc' = IF isV /\ Aborted(range) THEN "aborted" ELSE "pairs"
                   /\ num_nodes' = IF isN THEN ParseCount(val) ELSE num_nodes
                   /\ num_cells' = IF isE THEN ParseCount(val) ELSE num_cells
                   /\ first_cell' = IF isV /\ ~Aborted(range)
                                    THEN FirstCell(range) ELSE first_cell
                   /\ last_cell' = IF isV /\ ~Aborted(range)
                                   THEN LastCell(range) ELSE last_cell
    /\ UNCHANGED <<inp, contents, str, frame_count, s, variables,
                   num_node_vars, num_cell_vars, node_data, cell_data,
                   cell_connectivity, weights, k, itp_vars, interp_data,
                   node_reads>>
    /\ UNCHANGED <<splitter_vars, call_vars>>
    /\ UNCHANGED line_reads

NodeVarCount(first, last) == first

\* CellVarCount without the two places for z and r
CellVarCount_WithoutCoordinates(first, last) == last - first + 1

\* add 2 for z and r at start
CellVarCount(first, last) == last - first + 1 + 2

\* allocate memory for data and cell connectivity info
Allocate ==
    /\ pc = "alloc"
    /\ num_node_vars' = NodeVarCount(first_cell, last_cell)
    /\ num_cell_vars' = CellVarCount(first_cell, last_cell)
    /\ node_data' = Calloc(num_nodes * num_node_vars', D(0))
    /\ cell_data' = Calloc(num_cells * num_cell_vars', D(0))
    /\ cell_connectivity' = Calloc(cell_size * num_cells, 0)
    /\ k' = 0
    /\ pc' = "read_nodes"
    /\ UNCHANGED <<inp, contents, str, frame_count, s, line, variables,
                   num_nodes, num_cells, first_cell, last_cell, weights,
                   itp_vars, interp_data, node_reads>>
    /\ UNCHANGED <<splitter_vars, call_vars>>
    /\ UNCHANGED line_reads

\* FirstCellSlot with the text read from the start of cell_data
FirstCellSlot_FromZero == 0 * num_cells

\* int i = 2*num_cells: the first cell_data entry the text is read into
FirstCellSlot == 2 * num_cells

\* read nodal variables: one turn of the loop, or its end
ReadNodalValue ==
    /\ pc = "read_nodes"
    /\ IF k < num_node_vars * num_nodes
       THEN /\ line' = slice_getline(s)
            /\ s' = slice_getline_rest(s)
            /\ node_data' = [node_data EXCEPT ![k + 1] = atof(line'.buf)]
            /\ k' = k + 1
            /\ pc' = "read_nodes"
       ELSE /\ k' = FirstCellSlot
            /\ pc' = "read_cells"
            /\ UNCHANGED <<line, s, node_data>>
    /\ UNCHANGED <<inp, contents, str, frame_count, variables, num_nodes,
                   num_cells, first_cell, last_cell, num_node_vars,
                   num_cell_vars, cell_data, cell_connectivity, weights,
                   itp_vars, interp_data, node_reads>>
    /\ UNCHANGED <<splitter_vars, call_vars>>
    /\ line_reads' = IF k < num_node_vars * num_nodes THEN line_reads + 1
                   ELSE line_reads

\* read cell variables, starting from after z and r: one turn, or the end and
\* the allocation of the weights
ReadCellValue ==
    /\ pc = "read_cells"
    /\ IF k < num_cell_vars * num_cells
       THEN /\ line' = slice_getline(s)
            /\ s' = slice_getline_rest(s)
            /\ cell_data' = [cell_data EXCEPT ![k + 1] = atof(line'.buf)]
            /\ k' = k + 1
            /\ pc' = "read_cells"
            /\ UNCHANGED weights
       ELSE /\ k' = 0
            /\ weights' = Calloc(num_cells * cell_size, D(0))
            /\ pc' = "elements"
            /\ UNCHANGED <<line, s, cell_data>>
    /\ UNCHANGED <<inp, contents, str, frame_count, variables, num_nodes,
                   num_cells, first_cell, last_cell, num_node_vars,
                   num_cell_vars, node_data, cell_connectivity,
                   itp_vars, interp_data, node_reads>>
    /\ UNCHANGED <<splitter_vars, call_vars>>
    /\ line_reads' = IF k < num_cell_vars * num_cells THEN line_reads + 1
                   ELSE line_reads

\* NOTE: we are assuming z and r are the first two nodal variables
z_ind == 0

r_ind == 1

\* what a read outside an array may find there
Garbage == {D(0), D(3)}

\* the name found in a slot of `variables` no line was stored in
GarbageText == <<"?">>

InRange(arr, idx) == 0 <= idx /\ idx < Len(arr)

\* arr[idx]; outside the array, whatever g says lies there
Load(arr, idx, g) == IF InRange(arr, idx) THEN arr[idx + 1] ELSE g[idx]

\* arr[idx] = val; a write outside the array does not land in it
Store(arr, idx, val) ==
    IF InRange(arr, idx) THEN [arr EXCEPT ![idx + 1] = val] ELSE arr

\* the array of n entries a loop fills with the values f[0] .. f[n-1]
RECURSIVE Each(_, _)
Each(f, n) == IF n = 0 THEN <<>> ELSE Append(Each(f, n - 1), f[n - 1])

\* the sum of the first n entries of an array, added in index order
RECURSIVE SumTo(_, _)
SumTo(arr, n) == IF n = 0 THEN D(0) ELSE dadd(SumTo(arr, n - 1), arr[n])

\* the connectivity line after each of the first n tokens has been taken from
\* it: entry j+1 is the line after j tokens
RECURSIVE LinesAfter(_, _)
LinesAfter(ln, n) ==
    IF n = 0 THEN <<ln>>
    ELSE LET prev == LinesAfter(ln, n - 1)
         IN  Append(prev, slice_tok_rest(prev[n], {" "}))

LineAfter(ln, j) == LinesAfter(ln, j)[j + 1]

\* i64 node_ind = atoi(tok.buf) for the j-th token of the line
NodeInd(ln, j) == atoi(slice_tok(LineAfter(ln, j), {" "}).buf)

\* the node_data index of variable var at node node_ind
NodeIndex(var, node_ind) == var * num_nodes + node_ind

\* the cell center: the sum of the four coordinates, each times inv_n
CellCenter(xn) ==
    LET inv_n == ddiv(D(1), D(cell_size))
    IN  SumTo(Each([j \in 0..(cell_size - 1) |-> dmul(xn[j + 1], inv_n)], cell_size),
              cell_size)

\* wt[j] = 1.0 / dist2 for the four nodes
RawWeights(zn, rn, z_cell, r_cell) ==
    Each([j \in 0..(cell_size - 1) |->
            LET dz == dsub(zn[j + 1], z_cell)
                dr == dsub(rn[j + 1], r_cell)
                dist2 == dadd(dmul(dz, dz), dmul(dr, dr))
            IN  ddiv(D(1), dist2)],
         cell_size)

\* divide by sum of weights
NormalWeights(wt) ==
    LET sumwt == SumTo(wt, cell_size)
    IN  Each([j \in 0..(cell_size - 1) |-> ddiv(wt[j + 1], sumwt)], cell_size)

\* the line of element k
ElementLine == slice_lstrip(slice_getline(s))

\* the node_data indices the coordinates of the nodes ind are read at
ElementReads(ind) ==
    { NodeIndex(v, ind[j + 1]) : v \in {z_ind, r_ind}, j \in 0..(cell_size - 1) }

\* read connectivity info, compute the cell center and the weights of element k;
\* or the end of the loop.  Each local of the loop body is bound to its value
\* in the order the body computes it.
ReadElement ==
    /\ pc = "elements"
    /\ IF k < num_cells
       THEN \E ln \in {ElementLine} :
            \E ind \in {Each([j \in 0..(cell_size - 1) |-> NodeInd(ln, j)], cell_size)} :
            \E oob \in {{ x \in ElementReads(ind) : ~InRange(node_data, x) }} :
            \E lost \in {~InRange(cell_data, z_ind * num_cells + k)
                         \/ ~InRange(cell_data, r_ind * num_cells + k)} :
                \/ \E g \in [oob -> Garbage] :
                   \E zn \in {Each([j \in 0..(cell_size - 1) |->
                                   Load(node_data,
                                        NodeIndex(z_ind, ind[j + 1]), g)],
                                 cell_size)} :
                   \E rn \in {Each([j \in 0..(cell_size - 1) |->
                                   Load(node_data,
                                        NodeIndex(r_ind, ind[j + 1]), g)],
                                 cell_size)} :
                   \E z_cell \in {CellCenter(zn)} :
                   \E r_cell \in {CellCenter(rn)} :
                   \E raw \in {RawWeights(zn, rn, z_cell, r_cell)} :
                   \E wt \in {NormalWeights(raw)} :
                         /\ cell_connectivity' =
                               [x \in 1..Len(cell_connectivity) |->
                                  IF (x - 1) \div cell_size = k
                                  THEN ind[((x - 1) % cell_size) + 1]
                                  ELSE cell_connectivity[x]]
                         /\ cell_data' =
                               Store(Store(cell_data, z_ind * num_cells + k, z_cell),
                                     r_ind * num_cells + k, r_cell)
                         /\ weights' =
                               [x \in 1..Len(weights) |->
                                  IF (x - 1) \div cell_size = k
                                  THEN wt[((x - 1) % cell_size) + 1]
                                  ELSE weights[x]]
                         /\ line' = LineAfter(ln, cell_size)
                         /\ s' = slice_getline_rest(s)
                         /\ node_reads' = node_reads \cup ElementReads(ind)
                         /\ k' = k + 1
                         /\ pc' = "elements"
                \/ /\ oob /= {} \/ lost
                   /\ pc' = "crashed"
                   /\ UNCHANGED <<s, line, cell_connectivity, cell_data, weights,
                                  k, node_reads>>
       ELSE /\ pc' = "names"
            /\ UNCHANGED <<s, line, cell_connectivity, cell_data, weights, k,
                           node_reads>>
    /\ UNCHANGED <<inp, contents, str, frame_count, variables, num_nodes,
                   num_cells, first_cell, last_cell, num_node_vars,
                   num_cell_vars, node_data, itp_vars, interp_data>>
    /\ UNCHANGED <<splitter_vars, call_vars>>
    /\ line_reads' = IF k < num_cells THEN line_reads + 1 ELSE line_reads

NumItpVars == num_node_vars + num_cell_vars - 2

\* ItpNameSource with the columns named from the last variable backwards
ItpNameSource_Reversed(c) == (num_node_vars + num_cell_vars - 2) - 1 - c

\* the slot of `variables` that names column c of the interpolated table
ItpNameSource(c) ==
    IF c < num_node_vars THEN c ELSE (c - num_node_vars) + first_cell

\* the name lists are written or read outside their arrays
NamesUndefined ==
    \/ Len(variables) < 2
    \/ num_cell_vars < 2
    \/ num_node_vars < 0
    \/ \E c \in 0..(NumItpVars - 1) : ~InRange(variables, ItpNameSource(c))

\* allocate separate arrays of nodal and cell-centered vars and fill them
BuildNames ==
    /\ pc = "names"
    /\ \/ /\ itp_vars' =
                [c \in 1..(IF NumItpVars > 0 THEN NumItpVars ELSE 0) |->
                    IF InRange(variables, ItpNameSource(c - 1))
                    THEN Text(variables[ItpNameSource(c - 1) + 1])
                    ELSE GarbageText]
          /\ pc' = "interp"
       \/ /\ NamesUndefined
          /\ pc' = "crashed"
          /\ UNCHANGED itp_vars
    /\ UNCHANGED <<inp, contents, str, frame_count, s, line, variables,
                   num_nodes, num_cells, first_cell, last_cell, num_node_vars,
                   num_cell_vars, node_data, cell_data, cell_connectivity,
                   weights, k, interp_data, node_reads>>
    /\ UNCHANGED <<splitter_vars, call_vars>>
    /\ UNCHANGED line_reads

\* the node_data indices the interpolation loop reads
InterpReads ==
    { NodeIndex(var, cell_connectivity[i + cell * cell_size + 1]) :
        var \in 2..(num_node_vars - 1), cell \in 0..(num_cells - 1),
        i \in 0..(cell_size - 1) }

\* the two memcpy calls copy a negative count or run outside an array
CopiesUndefined ==
    \/ num_cells < 0
    \/ num_cells > 0 /\ (num_cell_vars < 2 \/ num_node_vars < 0 \/ NumItpVars < 2)

\* cell_val of variable var at element cell
Interpolated(var, cell, g) ==
    SumTo(Each([i \in 0..(cell_size - 1) |->
                 dmul(weights[i + cell * cell_size + 1],
                      Load(node_data,
                           NodeIndex(var, cell_connectivity[i + cell * cell_size + 1]),
                           g))],
               cell_size),
          cell_size)

\* interp_data[idx] once the first memcpy, the loop and the second memcpy ran
InterpValue(idx, g, gc) ==
    LET var == idx \div num_cells
        cell == idx % num_cells
        from == 2 * num_cells + (idx - num_node_vars * num_cells)
    IN  IF var >= num_node_vars /\ var - num_node_vars < num_cell_vars - 2
        THEN (IF InRange(cell_data, from) THEN cell_data[from + 1] ELSE gc)
        ELSE IF 2 <= var /\ var < num_node_vars THEN Interpolated(var, cell, g)
        ELSE IF var < 2
        THEN (IF InRange(cell_data, idx) THEN cell_data[idx + 1] ELSE gc)
        ELSE D(0)

\* interpolate variables to cell centers
Interpolate ==
    /\ pc = "interp"
    /\ LET oob == { x \in InterpReads : ~InRange(node_data, x) }
       IN  \/ \E g \in [oob -> Garbage] :
                \E gc \in (IF CopiesUndefined THEN Garbage ELSE {D(0)}) :
                  /\ interp_data' =
                        [x \in 1..(IF NumItpVars * num_cells > 0
                                   THEN NumItpVars * num_cells ELSE 0) |->
                            InterpValue(x - 1, g, gc)]
                  /\ node_reads' = node_reads \cup InterpReads
                  /\ pc' = "return"
           \/ /\ oob /= {} \/ CopiesUndefined
              /\ pc' = "crashed"
              /\ UNCHANGED <<interp_data, node_reads>>
    /\ UNCHANGED <<inp, contents, str, frame_count, s, line, variables,
                   num_nodes, num_cells, first_cell, last_cell, num_node_vars,
                   num_cell_vars, node_data, cell_data, cell_connectivity,
                   weights, k, itp_vars>>
    /\ UNCHANGED <<splitter_vars, call_vars>>
    /\ UNCHANGED line_reads

\* *file_contents = s; return; then save_tecplot_data (empty), free_tecplot_data
\* and i++ in process_tecplot_data
ReturnFrame ==
    /\ pc = "return"
    /\ str' = s
    /\ frame_count' = frame_count + 1
    /\ pc' = "loop"
    /\ s' = NoSlice
    /\ line' = NoSlice
    /\ variables' = <<>>
    /\ num_nodes' = -1
    /\ num_cells' = -1
    /\ first_cell' = -1
    /\ last_cell' = -1
    /\ num_node_vars' = 0
    /\ num_cell_vars' = 0
    /\ node_data' = <<>>
    /\ cell_data' = <<>>
    /\ cell_connectivity' = <<>>
    /\ weights' = <<>>
    /\ k' = 0
    /\ itp_vars' = <<>>
    /\ interp_data' = <<>>
    /\ node_reads' = {}
    /\ UNCHANGED <<inp, contents>>
    /\ UNCHANGED <<splitter_vars, call_vars>>
    /\ line_reads' = 0

Next ==
    \/ EnterFrame
    \/ ExitLoop
    \/ StripTitle
    \/ ReadFirstVariable
    \/ ReadVariable
    \/ BeginZone
    \/ ParsePair
    \/ Allocate
    \/ ReadNodalValue
    \/ ReadCellValue
    \/ ReadElement
    \/ BuildNames
    \/ Interpolate
    \/ ReturnFrame

Spec == Init /\ [][Next]_vars

-----------------------------------------------------------------------------
(* The frame splitter of parse2.c: read_tecplot_file reads a stream frame   *)
(* by frame with read_tecplot_frame(FILE *f, i64 *len).  `contents` is the  *)
(* file's text, `stream` the position of f and its end-of-file indicator.   *)

MaxFrames == 3         \* the most TITLE lines a split file holds
MaxBody == 2           \* the most lines that follow a TITLE line

\* #define linebuf_size 80
linebuf_size == 80

\* while (!feof(f) && i < 2)
FrameLimit == 2

\* the text of frame fr of a split file: its TITLE line and its body lines
SplitFrameLines(d, fr) ==
    << txtTITLE \o <<"=">> \o Dec(fr) >>
    \o [j \in 1..d.body[fr] |-> <<"v">> \o Dec(fr) \o <<".">> \o Dec(j)]

\* a line longer than linebuf: linebuf_size-1 bytes, then the word TITLE
LongLine == [j \in 1..(linebuf_size - 1) |-> "x"] \o txtTITLE

RECURSIVE SplitLines(_, _)
SplitLines(d, fr) ==
    IF fr = 0 THEN <<>>
    ELSE SplitLines(d, fr - 1) \o SplitFrameLines(d, fr)
         \o (IF d.long /\ fr = 1 THEN <<LongLine>> ELSE <<>>)

\* the file: every line with its line end, the last one only when d.nl says so
SplitText(d) ==
    LET lines == SplitLines(d, Len(d.body))
        all == TextOf(lines, 1, Len(lines))
    IN  IF d.nl THEN all ELSE SubSeq(all, 1, Len(all) - 1)

SplitInputs ==
    UNION { [body : [1..nf -> 0..MaxBody], nl : BOOLEAN, long : {FALSE}]
            : nf \in 1..MaxFrames }
    \cup [body : [1..1 -> 0..1], nl : BOOLEAN, long : {TRUE}]

\* what the bytes of linebuf read as a string when the function is entered:
\* the array is not initialized
Indeterminate(stale) == {<<>>, <<"?">>, stale}

\* the number of bytes fgets(linebuf, linebuf_size, f) stores from offset pos:
\* through the first line end, at most linebuf_size-1, 0 at the end of the file
FgetsCount(pos) ==
    LET toNL == strcspn(pos, {NL})
        whole == IF MemAt(pos + toNL) = NL THEN toNL + 1 ELSE toNL
    IN  IF whole > linebuf_size - 1 THEN linebuf_size - 1 ELSE whole

\* fgets met the end of the file: nothing to read, or the text ended before a
\* line end and before linebuf was full
FgetsSetsEOF(pos) ==
    LET n == FgetsCount(pos)
    IN  n = 0 \/ (pos + n = Len(contents) /\ contents[pos + n] /= NL
                  /\ n < linebuf_size - 1)

\* parse2.c sl_startswith(slice(text), lit): strncmp(lit, text, strlen(lit))
\* == 0 on the NUL-terminated text
StartsWithStr(text, lit) ==
    Len(text) >= Len(lit) /\ SubSeq(text, 1, Len(lit)) = lit

SplitInit ==
    /\ inp \in SplitInputs
    /\ contents = SplitText(inp)
    /\ stream = [pos |-> 0, eof |-> FALSE]
    /\ frame_count = 0
    /\ pc = "file_loop"
    /\ linebuf = <<>>
    /\ frame_buf = <<>>
    /\ linenum = 0
    /\ frames = <<>>
    /\ str = NoSlice
    /\ s = NoSlice
    /\ line = NoSlice
    /\ variables = <<>>
    /\ num_nodes = -1
    /\ num_cells = -1
    /\ first_cell = -1
    /\ last_cell = -1
    /\ num_node_vars = 0
    /\ num_cell_vars = 0
    /\ node_data = <<>>
    /\ cell_data = <<>>
    /\ cell_connectivity = <<>>
    /\ weights = <<>>
    /\ k = 0
    /\ itp_vars = <<>>
    /\ interp_data = <<>>
    /\ node_reads = {}
    /\ parent = NoSlice
    /\ ret = 0
    /\ line_reads = 0

\* char *frame = read_tecplot_frame(f, &len): the call and its fresh locals
CallReadFrame ==
    /\ pc = "file_loop"
    /\ ~stream.eof /\ frame_count < FrameLimit
    /\ \E junk \in Indeterminate(linebuf) : linebuf' = junk
    /\ frame_buf' = <<>>
    /\ linenum' = 0
    /\ pc' = "frame_loop"
    /\ UNCHANGED <<inp, contents, stream, frame_count, frames, str, s,
                   frame_locals, call_vars>>

\* one turn of for (linenum = 0; !feof(f); linenum++)
ReadFrameLine ==
    /\ pc = "frame_loop"
    /\ ~stream.eof
    /\ \E n \in {FgetsCount(stream.pos)} :
       \E got \in {IF n = 0 THEN linebuf
                   ELSE SubSeq(contents, stream.pos + 1, stream.pos + n)} :
          /\ stream' = [pos |-> stream.pos + n,
                        eof |-> FgetsSetsEOF(stream.pos)]
          /\ IF StartsWithStr(got, txtTITLE)
             THEN /\ linebuf' = got
                  /\ UNCHANGED frame_buf
                  /\ IF linenum > 0
                     THEN pc' = "frame_return" /\ UNCHANGED linenum
                     ELSE pc' = "frame_loop" /\ linenum' = linenum + 1
             ELSE /\ IF got /= <<>>
                     THEN frame_buf' = frame_buf \o got /\ linebuf' = <<>>
                     ELSE UNCHANGED frame_buf /\ linebuf' = got
                  /\ linenum' = linenum + 1
                  /\ pc' = "frame_loop"
    /\ UNCHANGED <<inp, contents, frame_count, frames, str, s, frame_locals,
                   call_vars>>

\* the loop is left, *len = buflen; return buf; then free(frame); i++
ReturnFrameText ==
    /\ pc = "frame_return" \/ (pc = "frame_loop" /\ stream.eof)
    /\ frames' = Append(frames, frame_buf)
    /\ frame_count' = frame_count + 1
    /\ pc' = "file_loop"
    /\ UNCHANGED <<inp, contents, stream, linebuf, frame_buf, linenum, str, s,
                   frame_locals, call_vars>>

\* close_file(f); return i
CloseFile ==
    /\ pc = "file_loop"
    /\ ~(~stream.eof /\ frame_count < FrameLimit)
    /\ pc' = "closed"
    /\ UNCHANGED <<inp, contents, stream, frame_count, splitter_vars, str, s,
                   frame_locals, call_vars>>

SplitNext ==
    \/ CallReadFrame
    \/ ReadFrameLine
    \/ ReturnFrameText
    \/ CloseFile

SplitSpec == SplitInit /\ [][SplitNext]_vars

-----------------------------------------------------------------------------
(* The slice functions on their own: calls of reslice, slice_prefix,        *)
(* slice_suffix, sl_lstrip, sl_rstrip, sl_strip, slice_tok and              *)
(* sl_startswith, one after the other, on a view `s` that starts as the     *)
(* whole of a buffer.  `parent` is the view a call was made on, `inp` its   *)
(* other arguments, `ret` the value it returned and `line` the token        *)
(* slice_tok returned.                                                      *)

MaxLen == 3            \* the most bytes a buffer of the slice calls holds

\* the bytes the buffers are written from
SliceAlphabet == {" ", ",", "a"}

Buffers == UNION { [1..n -> SliceAlphabet] : n \in 0..MaxLen }

DelimiterSets == { {}, {","}, {",", " "} }

Literals == { <<"a">>, <<"a", "a">>, <<"a", ",">> }

\* the arguments of a call: indices, delimiters and a literal
Args(i, j, delimiters, lit) ==
    [i |-> i, j |-> j, delimiters |-> delimiters, lit |-> lit]

NoArgs == Args(0, 0, {}, <<>>)

\* what the slice calls leave alone
not_in_call == <<contents, str, frame_count, variables, num_nodes, num_cells,
                 first_cell, last_cell, num_node_vars, num_cell_vars,
                 node_data, cell_data, cell_connectivity, weights, k,
                 itp_vars, interp_data, node_reads, splitter_vars,
                 line_reads>>

SliceInit ==
    /\ contents \in Buffers
    /\ s = slice_n(0, Len(contents))
    /\ parent = slice_n(0, Len(contents))
    /\ line = NoSlice
    /\ ret = 0
    /\ line_reads = 0
    /\ inp = NoArgs
    /\ pc = "start"
    /\ str = NoSlice
    /\ frame_count = 0
    /\ variables = <<>>
    /\ num_nodes = -1
    /\ num_cells = -1
    /\ first_cell = -1
    /\ last_cell = -1
    /\ num_node_vars = 0
    /\ num_cell_vars = 0
    /\ node_data = <<>>
    /\ cell_data = <<>>
    /\ cell_connectivity = <<>>
    /\ weights = <<>>
    /\ k = 0
    /\ itp_vars = <<>>
    /\ interp_data = <<>>
    /\ node_reads = {}
    /\ stream = [pos |-> 0, eof |-> FALSE]
    /\ linebuf = <<>>
    /\ frame_buf = <<>>
    /\ linenum = 0
    /\ frames = <<>>

\* the indices a call may be given: in range, negative, and out of range
Indices == (-MaxLen - 1)..(MaxLen + 1)

\* s = reslice(s, i, j)
CallReslice ==
    /\ pc /= "aborted"
    /\ \E i \in Indices : \E j \in Indices :
          /\ inp' = Args(i, j, {}, <<>>)
          /\ IF Aborted(reslice(s, i, j))
             THEN pc' = "aborted" /\ UNCHANGED s
             ELSE pc' = "reslice" /\ s' = reslice(s, i, j)
    /\ parent' = s
    /\ ret' = 0
    /\ UNCHANGED <<line, not_in_call>>

\* s = slice_prefix(s, i)
CallPrefix ==
    /\ pc /= "aborted"
    /\ \E i \in Indices :
          /\ inp' = Args(i, 0, {}, <<>>)
          /\ IF Aborted(slice_prefix(s, i))
             THEN pc' = "aborted" /\ UNCHANGED s
             ELSE pc' = "prefix" /\ s' = slice_prefix(s, i)
    /\ parent' = s
    /\ ret' = 0
    /\ UNCHANGED <<line, not_in_call>>

\* s = slice_suffix(s, i)
CallSuffix ==
    /\ pc /= "aborted"
    /\ \E i \in Indices :
          /\ inp' = Args(i, 0, {}, <<>>)
          /\ IF Aborted(slice_suffix(s, i))
             THEN pc' = "aborted" /\ UNCHANGED s
             ELSE pc' = "suffix" /\ s' = slice_suffix(s, i)
    /\ parent' = s
    /\ ret' = 0
    /\ UNCHANGED <<line, not_in_call>>

\* ret = sl_lstrip(&s)
CallLstrip ==
    /\ pc /= "aborted"
    /\ ret' = sl_lstrip(s)
    /\ s' = slice_lstrip(s)
    /\ parent' = s
    /\ inp' = NoArgs
    /\ pc' = "lstrip"
    /\ UNCHANGED <<line, not_in_call>>

\* ret = sl_rstrip(&s)
CallRstrip ==
    /\ pc /= "aborted"
    /\ ret' = sl_rstrip(s)
    /\ s' = slice_rstrip(s)
    /\ parent' = s
    /\ inp' = NoArgs
    /\ pc' = "rstrip"
    /\ UNCHANGED <<line, not_in_call>>

\* ret = sl_strip(&s)
CallStrip ==
    /\ pc /= "aborted"
    /\ ret' = sl_strip(s)
    /\ s' = slice_strip(s)
    /\ parent' = s
    /\ inp' = NoArgs
    /\ pc' = "strip"
    /\ UNCHANGED <<line, not_in_call>>

\* line = slice_tok(&s, delimiters)
CallTok ==
    /\ pc /= "aborted"
    /\ \E delimiters \in DelimiterSets :
          /\ inp' = Args(0, 0, delimiters, <<>>)
          /\ line' = slice_tok(s, delimiters)
          /\ s' = slice_tok_rest(s, delimiters)
    /\ parent' = s
    /\ ret' = 0
    /\ pc' = "tok"
    /\ UNCHANGED not_in_call

\* ret = sl_startswith(s, slice(lit))
CallStartswith ==
    /\ pc /= "aborted"
    /\ \E lit \in Literals :
          /\ inp' = Args(0, 0, {}, lit)
          /\ ret' = sl_startswith(s, lit)
    /\ parent' = s
    /\ pc' = "startswith"
    /\ UNCHANGED <<s, line, not_in_call>>

SliceNext ==
    \/ CallReslice
    \/ CallPrefix
    \/ CallSuffix
    \/ CallLstrip
    \/ CallRstrip
    \/ CallStrip
    \/ CallTok
    \/ CallStartswith

SliceSpec == SliceInit /\ [][SliceNext]_vars

-----------------------------------------------------------------------------
(* The claims.  They speak of the first frame of a file (frame_count = 0)   *)
(* and compare what the code holds with the description the file was        *)
(* written from.                                                            *)

\* the frame's own lines are all there and its zone line names N and E
Intact == inp.trunc = 0 /\ inp.missing = "none"

\* the cut, if any, has left the header and the zone line of the first frame
HeaderKept == inp.trunc <= Len(DataLines(inp))

\* element 0 has been read and nothing later has touched its results
ElementZeroRead == frame_count = 0 /\ pc = "elements" /\ k = 1

\* every read of node_data so far lay inside the array
NoStrayRead == \A x \in node_reads : InRange(node_data, x)

\* the file values of element 0's connectivity line
FileConn == ConnValues(inp, 0)

ConnInRange == \A j \in 1..cell_size : FileConn[j] \in 1..inp.n

\* the mean of coordinate c over the four nodes the connectivity line names
NamedMean(c) ==
    Norm(NodalValue(c, FileConn[1]) + NodalValue(c, FileConn[2])
         + NodalValue(c, FileConn[3]) + NodalValue(c, FileConn[4]), cell_size)

\* C1: every connectivity value v in [1, node_count] of an element line is
\* stored in the element's Connectivity row as v-1, and the node coordinates
\* are looked up at v-1 (the z and r entries of node v-1, and no others).
C1_ConnectivityZeroIndexed ==
    (ElementZeroRead /\ Intact /\ ConnInRange) =>
        /\ \A j \in 1..cell_size : cell_connectivity[j] = FileConn[j] - 1
        /\ node_reads = { c * inp.n + (FileConn[j] - 1) :
                            c \in {z_ind, r_ind}, j \in 1..cell_size }

\* C2: a connectivity value outside [1, node_count] ends the parse of the
\* frame in an error: no frame is produced from such a file.
C2_OutOfRangeIsRejected ==
    (frame_count = 0 /\ Intact /\ inp.e >= 1 /\ ~ConnInRange /\ NoStrayRead)
        => pc /= "return"

\* C3: the unit-square scenario (variables Z, R, P; N=4, E=1, [3-3]; element
\* 1 2 3 4) yields node_var_count 2, cell_var_count 3, center (0.5, 0.5) and
\* four weights of 0.25.
C3_UnitSquareScenario ==
    ( /\ inp = [eqsp |-> FALSE, order |-> <<"N", "E", "V">>, extras |-> FALSE,
                missing |-> "none", nv |-> 2, nc |-> 1, n |-> 4, e |-> 1,
                pat |-> <<1, 2, 3, 4>>, trunc |-> 0, more |-> FALSE]
      /\ frame_count = 0
      /\ pc = "return" ) =>
        /\ num_node_vars = 2
        /\ num_cell_vars = 3
        /\ cell_data[1] = Norm(1, 2)
        /\ cell_data[2] = Norm(1, 2)
        /\ \A x \in 1..cell_size : weights[x] = Norm(1, 4)

\* C4: when the variable list ends at the ZONE line, the list is the header's
\* names in file order, each without its two quotes and otherwise unchanged,
\* and the line in hand is the ZONE line.
C4_VariableListIsHeaderNames ==
    (frame_count = 0 /\ pc = "zone" /\ HeaderKept) =>
        /\ [i \in 1..Len(variables) |-> Text(variables[i])]
             = [i \in 1..(inp.nv + inp.nc) |-> Names[i]]
        /\ Text(line) = ZoneLine(inp)

\* the positions at which the zone line has been parsed, and those at which
\* the counts have been derived from it
ZoneParsed ==
    pc \in {"alloc", "read_nodes", "read_cells", "elements", "names", "interp",
            "return"}

CountsDerived == ZoneParsed /\ pc /= "alloc"

\* C5: a zone line holding N=n, E=e and VARLOCATION=([a-b]=CELLCENTERED), in
\* any order and among other pairs, gives node_count n, element_count e,
\* first_cell_var_index a-1, last_cell_var_index b-1, node_var_count a-1 and
\* cell_var_count b-a+3.
C5_ZoneDescriptor ==
    LET a == inp.nv + 1
        b == inp.nv + inp.nc
    IN  (frame_count = 0 /\ inp.missing = "none" /\ HeaderKept) =>
          /\ ZoneParsed =>
                /\ num_nodes = inp.n
                /\ num_cells = inp.e
                /\ first_cell = a - 1
                /\ last_cell = b - 1
          /\ CountsDerived =>
                /\ num_node_vars = a - 1
                /\ num_cell_vars = b - a + 3

\* the counts are derived from a zone line with VARLOCATION first, two native
\* cell variables and unrecognized pairs around the recognized ones
C5_Witness ==
    /\ frame_count = 0
    /\ pc = "read_nodes"
    /\ inp.missing = "none"
    /\ inp.extras
    /\ inp.order = <<"V", "E", "N">>
    /\ inp.nc = 2
    /\ num_cell_vars = 4
    /\ num_node_vars = inp.nv
    /\ num_nodes = inp.n

\* C6: a zone line without N or without E is fatal after the pair loop: the
\* tables are never allocated from the unset counts.
C6_MissingCountIsFatal ==
    (frame_count = 0 /\ inp.missing /= "none" /\ HeaderKept) => ~CountsDerived

\* C7: a frame with fewer numeric lines than its counts require fails; no
\* frame comes out of it.
C7_ShortInputFails ==
    (frame_count = 0 /\ inp.missing = "none" /\ inp.trunc > 0 /\ HeaderKept)
        => pc /= "return"

\* C8: no infinite or NaN interpolation weight is ever stored (a frame with
\* a node at its element's center is rejected instead).
C8_NoDegenerateWeightStored ==
    (Intact /\ NoStrayRead) => \A x \in 1..Len(weights) : IsFinite(weights[x])

\* C9: in a returned frame the four weights of every element sum to 1.
C9_WeightsSumToOne ==
    (pc = "return" /\ Intact /\ NoStrayRead) =>
        \A cell \in 0..(num_cells - 1) :
            SumTo(Each([j \in 0..(cell_size - 1) |-> weights[cell * cell_size + j + 1]],
                       cell_size),
                  cell_size) = D(1)

\* C10: the element center is the mean of coordinates 0 and 1 over the four
\* nodes the connectivity line names.
C10_CenterIsMeanOfNamedNodes ==
    (ElementZeroRead /\ Intact /\ ConnInRange /\ NoStrayRead) =>
        /\ cell_data[z_ind * num_cells + 1] = NamedMean(z_ind)
        /\ cell_data[r_ind * num_cells + 1] = NamedMean(r_ind)

\* the offset of the first connectivity line of the file written from f
ConnStart(f) ==
    Len(TextOf(FileLines(f), 1, (f.nv + f.nc + 2) + f.nv * f.n + f.nc * f.e))

\* the numeric block has just been read
NumericBlockRead == frame_count = 0 /\ pc = "elements" /\ k = 0

\* C11: the numeric block reader puts the node_var_count*node_count nodal
\* lines into NodeTable in variable-major order, the following
\* (cell_var_count-2)*element_count lines into CellTable from position
\* 2*element_count on in the same order, leaves positions below
\* 2*element_count as allocated, and stops at the first connectivity line.
C11_NumericBlockOrder ==
    (NumericBlockRead /\ Intact) =>
        /\ Len(node_data) = inp.nv * inp.n
        /\ \A v \in 0..(inp.nv - 1) : \A j \in 0..(inp.n - 1) :
              node_data[v * inp.n + j + 1] = D(NodalValue(v, j + 1))
        /\ Len(cell_data) = (inp.nc + 2) * inp.e
        /\ \A c \in 0..(inp.nc - 1) : \A i \in 0..(inp.e - 1) :
              cell_data[2 * inp.e + c * inp.e + i + 1] = CellValue(c, i)
        /\ \A x \in 1..(2 * inp.e) : cell_data[x] = D(0)
        /\ s.buf = ConnStart(inp)

C11_Witness ==
    /\ NumericBlockRead
    /\ Intact
    /\ inp.e = 1
    /\ inp.nc = 2
    /\ inp.nv = 3
    /\ cell_data[4] = CellValue(1, 0)
    /\ s.buf = ConnStart(inp)

\* the frame's header and numeric lines have been parsed
FrameParsed == frame_count = 0 /\ pc \in {"names", "interp", "return"}

\* C12: for a frame whose VARLOCATION range ends at its last header name, the
\* VariableList holds node_var_count + (cell_var_count - 2) names, one for
\* every column of the InterpolatedTable.
C12_VariableListLength ==
    (FrameParsed /\ Intact) =>
        /\ Len(variables) = inp.nv + inp.nc
        /\ Len(variables) = num_node_vars + (num_cell_vars - 2)
        /\ pc \in {"interp", "return"} => Len(itp_vars) = Len(variables)

C12_Witness ==
    /\ frame_count = 0
    /\ pc = "return"
    /\ Intact
    /\ Len(variables) = 5
    /\ num_node_vars = 3
    /\ num_cell_vars = 4
    /\ Len(itp_vars) = 5

\* the frame has been returned to process_tecplot_data
FrameReturned == frame_count = 0 /\ pc = "return"

\* the weighted sum of nodal variable var over the nodes of element cell, from
\* the frame's own weights and connectivity
WeightedSum(var, cell) ==
    SumTo(Each([j \in 0..(cell_size - 1) |->
                  dmul(weights[cell * cell_size + j + 1],
                       node_data[var * num_nodes
                                 + cell_connectivity[cell * cell_size + j + 1]
                                 + 1])],
               cell_size),
          cell_size)

\* C13: in a returned frame column k of the InterpolatedTable carries the name
\* VariableList[k], and the columns hold, in order: the element centers'
\* coordinate 0, coordinate 1, the weighted interpolation of the nodal
\* variables 2..node_var_count-1, and the native cell-centered variables with
\* the values and the order of the file.
C13_InterpolatedColumns ==
    (FrameReturned /\ Intact /\ NoStrayRead) =>
        /\ Len(itp_vars) = num_node_vars + num_cell_vars - 2
        /\ \A c \in 1..Len(itp_vars) : itp_vars[c] = Text(variables[c])
        /\ Len(interp_data) = Len(itp_vars) * num_cells
        /\ \A i \in 0..(num_cells - 1) :
              /\ interp_data[z_ind * num_cells + i + 1]
                    = cell_data[z_ind * num_cells + i + 1]
              /\ interp_data[r_ind * num_cells + i + 1]
                    = cell_data[r_ind * num_cells + i + 1]
              /\ \A var \in 2..(num_node_vars - 1) :
                    interp_data[var * num_cells + i + 1] = WeightedSum(var, i)
              /\ \A c \in 0..(inp.nc - 1) :
                    interp_data[(num_node_vars + c) * num_cells + i + 1]
                        = CellValue(c, i)

C13_Witness ==
    /\ FrameReturned
    /\ Intact
    /\ NoStrayRead
    /\ inp.e = 1
    /\ inp.nv = 3
    /\ inp.nc = 2
    /\ inp.pat = <<0, 1, 2, 3>>
    /\ IsFinite(interp_data[3])
    /\ interp_data[5] = CellValue(1, 0)

\* the offsets of the lines of the file that start with TITLE
TitleStarts ==
    { p \in 0..(Len(contents) - 1) :
        /\ p = 0 \/ contents[p] = NL
        /\ p + Len(txtTITLE) <= Len(contents)
        /\ SubSeq(contents, p + 1, p + Len(txtTITLE)) = txtTITLE }

\* the n-th TITLE line's offset (n from 1), the end of the file after the last
TitleStart(n) ==
    IF n > Cardinality(TitleStarts) THEN Len(contents)
    ELSE CHOOSE p \in TitleStarts :
            Cardinality({q \in TitleStarts : q < p}) = n - 1

\* the bytes from the n-th TITLE line to just before the next one
TitleSpan(n) == SubSeq(contents, TitleStart(n) + 1, TitleStart(n + 1))

\* C14: splitting an input whose first line starts with TITLE yields one
\* frame per line starting with TITLE, in file order, each from its TITLE line
\* to just before the next (or to the end of the input), so that the frames'
\* spans concatenated are the input; two TITLE lines give two frames.
C14_SplitAtTitleLines ==
    (pc = "closed" /\ 0 \in TitleStarts) =>
        /\ Len(frames) = Cardinality(TitleStarts)
        /\ \A n \in 1..Len(frames) : frames[n] = TitleSpan(n)
        /\ Flatten(frames, <<>>) = contents

\* C15: a frame whose zone line declares E=0 (with N and VARLOCATION) parses
\* without an assertion failure, a crash or a read outside node_data, reads
\* no line after its numeric block, and its InterpolatedTable has no rows.
C15_NoElementsParses ==
    (frame_count = 0 /\ inp.e = 0 /\ Intact) =>
        /\ pc \notin {"aborted", "crashed"}
        /\ node_reads = {}
        /\ pc \in {"names", "interp", "return"} =>
              /\ s.buf = ConnStart(inp)
              /\ num_cells = 0
              /\ cell_connectivity = <<>>
              /\ weights = <<>>
        /\ pc = "return" =>
              /\ interp_data = <<>>
              /\ Len(itp_vars) = inp.nv + inp.nc

C15_Witness ==
    /\ frame_count = 0
    /\ pc = "return"
    /\ inp.e = 0
    /\ Intact
    /\ inp.more
    /\ interp_data = <<>>
    /\ s.buf = ConnStart(inp)
    /\ s.len > 0

\* the second call of read_tecplot_frame on a file of two frames
SecondCall == inp.more /\ frame_count = 1

\* the counts, names and values the text of SecondFrame determines
SecondFrameTables ==
    /\ num_nodes = SecondFrame.n
    /\ num_cells = SecondFrame.e
    /\ num_node_vars = SecondFrame.nv
    /\ num_cell_vars = SecondFrame.nc + 2
    /\ node_data = [x \in 1..(SecondFrame.nv * SecondFrame.n) |->
                      D(NodalValue((x - 1) \div SecondFrame.n,
                                   ((x - 1) % SecondFrame.n) + 1))]
    /\ \A c \in 0..(SecondFrame.nc - 1) : \A i \in 0..(SecondFrame.e - 1) :
          cell_data[(2 + c) * SecondFrame.e + i + 1] = CellValue(c, i)
    /\ itp_vars = [c \in 1..(SecondFrame.nv + SecondFrame.nc) |-> Names[c]]

\* C16: frames are independent: what is produced for the second frame of a
\* file depends only on that frame's bytes, so every file that ends with the
\* bytes of SecondFrame yields the same second frame, whatever the content,
\* the declared counts or the number of lines of its first frame.
C16_FramesIndependent ==
    SecondCall =>
        /\ pc \notin {"aborted", "crashed"}
        /\ pc = "return" => SecondFrameTables

-----------------------------------------------------------------------------
(* C17: sl_startswith(view, literal) returns true only when the literal is   *)
(* no longer than the view and the view's first len(literal) bytes equal the *)
(* literal; when the literal is longer than the view it returns false, and   *)
(* it never compares bytes beyond the view's length, also for a view that is *)
(* a sub-slice of a longer buffer.                                           *)
C17_StartsWithBounded ==
    pc = "startswith" =>
        /\ ret = TRUE =>
              /\ Len(inp.lit) <= parent.len
              /\ \A j \in 1..Len(inp.lit) :
                     MemAt(parent.buf + j - 1) = inp.lit[j]
        /\ Len(inp.lit) > parent.len => ret = FALSE
        /\ strncmp_compared(inp.lit, parent.buf, Len(inp.lit)) <= parent.len

-----------------------------------------------------------------------------
\* the view a strip call leaves: a span of the view it was called on, with
\* only whitespace cut off, and none left at the end(s) the call strips
StripLeavesSpan(leading, trailing) ==
    /\ parent.buf <= s.buf
    /\ s.buf + s.len <= parent.buf + parent.len
    /\ \A p \in parent.buf..(s.buf - 1) : isspace(MemAt(p))
    /\ \A p \in (s.buf + s.len)..(parent.buf + parent.len - 1) : isspace(MemAt(p))
    /\ IF leading THEN s.len = 0 \/ ~isspace(MemAt(s.buf))
       ELSE s.buf = parent.buf
    /\ IF trailing THEN s.len = 0 \/ ~isspace(MemAt(s.buf + s.len - 1))
       ELSE s.buf + s.len = parent.buf + parent.len

(* C18 as stated: sl_lstrip, sl_rstrip and sl_strip each return the number   *)
(* of bytes they removed, the view's length before the call minus its length *)
(* after, and leave the view equal to the remaining span with the respective *)
(* whitespace removed.                                                       *)
C18_StripReturnsRemoved ==
    /\ pc = "lstrip" => ret = parent.len - s.len /\ StripLeavesSpan(TRUE, FALSE)
    /\ pc = "rstrip" => ret = parent.len - s.len /\ StripLeavesSpan(FALSE, TRUE)
    /\ pc = "strip" => ret = parent.len - s.len /\ StripLeavesSpan(TRUE, TRUE)

(* C18 amended: sl_lstrip and sl_strip return the number of bytes they       *)
(* removed; sl_rstrip returns the index of the first trailing whitespace     *)
(* byte, which is the view's length after the call; each leaves the view     *)
(* equal to the remaining span with the respective whitespace removed.       *)
C18_StripReturns ==
    /\ pc = "lstrip" => ret = parent.len - s.len /\ StripLeavesSpan(TRUE, FALSE)
    /\ pc = "rstrip" => ret = s.len /\ StripLeavesSpan(FALSE, TRUE)
    /\ pc = "strip" => ret = parent.len - s.len /\ StripLeavesSpan(TRUE, TRUE)

\* sl_rstrip has cut whitespace off a view and returned the length it left,
\* which is not the number of bytes cut
C18_Witness ==
    /\ pc = "rstrip"
    /\ 0 < s.len
    /\ s.len < parent.len
    /\ ret = s.len
    /\ ret /= parent.len - s.len

-----------------------------------------------------------------------------
\* the bytes at offsets lo .. hi-1 of the buffer
BytesIn(lo, hi) == {MemAt(p) : p \in lo..(hi - 1)}

(* C19: slice_tok returns the longest prefix of the view that holds no       *)
(* delimiter byte, and leaves the view without that prefix and without the   *)
(* maximal run of delimiter bytes that follows it: token length + delimiters *)
(* skipped + remaining length is the original length, the remaining view is  *)
(* empty or starts with a byte that is no delimiter, and an empty view gives *)
(* an empty token and stays empty.                                           *)
C19_TokenSplitsView ==
    pc = "tok" =>
        /\ line.buf = parent.buf
        /\ 0 <= line.len /\ line.len <= parent.len
        /\ BytesIn(line.buf, line.buf + line.len) \cap inp.delimiters = {}
        /\ line.len = parent.len \/ MemAt(line.buf + line.len) \in inp.delimiters
        /\ line.buf + line.len <= s.buf
        /\ s.buf + s.len = parent.buf + parent.len
        /\ BytesIn(line.buf + line.len, s.buf) \subseteq inp.delimiters
        /\ s.len = 0 \/ MemAt(s.buf) \notin inp.delimiters
        /\ line.len + (s.buf - (line.buf + line.len)) + s.len = parent.len
        /\ parent.len = 0 => line.len = 0 /\ s.len = 0

\* a token was cut off a view before delimiters, and bytes are left after them
C19_Witness ==
    /\ pc = "tok"
    /\ line.len > 0
    /\ s.buf > line.buf + line.len
    /\ s.len > 0
    /\ s.len < parent.len

-----------------------------------------------------------------------------
\* the index i of a call resolved against a view of len bytes
Resolved(i, len) == IF i < 0 THEN len + i ELSE i

IndexInRange(i, len) == 0 <= Resolved(i, len) /\ Resolved(i, len) <= len

\* the view v lies inside the view it was derived from
Inside(v, from) ==
    /\ 0 <= v.len
    /\ from.buf <= v.buf
    /\ v.buf + v.len <= from.buf + from.len

(* C20: after any sequence of reslice, prefix, suffix, strip and token calls *)
(* every resulting view lies inside the view it was derived from, a negative *)
(* index i being resolved to len + i; a call whose resolved index is outside *)
(* [0, len], or a reslice with resolved i > j, fails and produces no view.   *)
C20_ViewsStayInside ==
    /\ pc \in {"reslice", "prefix", "suffix", "lstrip", "rstrip", "strip", "tok"}
          => Inside(s, parent)
    /\ pc = "tok" => Inside(line, parent)
    /\ pc = "reslice" =>
          /\ IndexInRange(inp.i, parent.len) /\ IndexInRange(inp.j, parent.len)
          /\ Resolved(inp.i, parent.len) <= Resolved(inp.j, parent.len)
          /\ s.buf = parent.buf + Resolved(inp.i, parent.len)
          /\ s.len = Resolved(inp.j, parent.len) - Resolved(inp.i, parent.len)
    /\ pc = "prefix" =>
          /\ IndexInRange(inp.i, parent.len)
          /\ s.buf = parent.buf
          /\ s.len = Resolved(inp.i, parent.len)
    /\ pc = "suffix" =>
          /\ IndexInRange(inp.i, parent.len)
          /\ s.buf = parent.buf + Resolved(inp.i, parent.len)
          /\ s.len = parent.len - Resolved(inp.i, parent.len)
    /\ pc = "aborted" =>
          /\ s = parent
          /\ \/ ~IndexInRange(inp.i, parent.len)
             \/ ~IndexInRange(inp.j, parent.len)
             \/ Resolved(inp.i, parent.len) > Resolved(inp.j, parent.len)

\* a reslice with a negative index has cut a view out of the middle of a
\* sub-view of the buffer
C20_Witness ==
    /\ pc = "reslice"
    /\ inp.i > 0
    /\ inp.j < 0
    /\ 0 < parent.buf
    /\ parent.buf < s.buf
    /\ s.buf + s.len < parent.buf + parent.len

-----------------------------------------------------------------------------
\* the run has ended: process_tecplot_data returned, or the run was aborted
Terminated == pc \in {"exit", "aborted", "crashed"}

\* the lines of text the view holds
TextLines(sl) ==
    Cardinality({p \in sl.buf..(sl.buf + sl.len - 1) : MemAt(p) = NL})

AtLeastZero(n) == IF n > 0 THEN n ELSE 0

\* the numeric lines the zone line of the current frame declares, known once
\* the tables are allocated: nodal values, cell values and elements
DeclaredLines ==
    AtLeastZero(num_node_vars * num_nodes)
    + AtLeastZero(num_cell_vars * num_cells - 2 * num_cells)
    + AtLeastZero(num_cells)

\* the positions of a call of read_tecplot_frame, last to first, and the
\* head of the loop of process_tecplot_data
PhaseOrder ==
    <<"return", "interp", "names", "elements", "read_cells", "read_nodes",
      "alloc", "pairs", "zone", "vars", "first_var", "title", "loop">>

\* how far the position is from the end of the loop body; 0 once the run ended
PhaseRank(p) ==
    IF \E n \in 1..Len(PhaseOrder) : PhaseOrder[n] = p
    THEN CHOOSE n \in 1..Len(PhaseOrder) : PhaseOrder[n] = p
    ELSE 0

\* the turns the loop at the current position has left at most
LoopVariant ==
    CASE pc = "vars" -> s.len
      [] pc = "pairs" -> line.len
      [] pc = "read_nodes" -> AtLeastZero(num_node_vars * num_nodes - k)
      [] pc = "read_cells" -> AtLeastZero(num_cell_vars * num_cells - k)
      [] pc = "elements" -> AtLeastZero(num_cells - k)
      [] OTHER -> 0

\* the line reads of the current call are bounded by the lines the cursor
\* held when it was called and the numeric lines the frame declares; a call
\* that returns leaves a strictly shorter suffix of the cursor; every frame
\* counted has used up at least a byte of the buffer
C21_BoundedWork ==
    /\ line_reads <= TextLines(str) + 1 + DeclaredLines
    /\ pc \in {"vars", "zone", "pairs", "alloc"} => line_reads <= TextLines(str) + 1
    /\ pc = "return" =>
          /\ s.len < str.len
          /\ s.buf + s.len = str.buf + str.len
    /\ frame_count <= str.buf
    /\ str.len >= 0 /\ LoopVariant >= 0
    /\ Terminated \/ PhaseRank(pc) > 0
    /\ str.buf + str.len = Len(contents)

\* a step shortens the cursor, or leaves it and moves on in the loop body, or
\* leaves both and uses up a turn of the loop it is in
C21_StepDecreases ==
    \/ str'.len < str.len
    \/ str'.len = str.len /\ PhaseRank(pc') < PhaseRank(pc)
    \/ str'.len = str.len /\ PhaseRank(pc') = PhaseRank(pc)
          /\ LoopVariant' < LoopVariant

-----------------------------------------------------------------------------
\* the slots 0 .. n-1 of a table of n entries
Slots(n) == 0..(n - 1)

\* the slots of the tables the current position of read_tecplot_frame is about
\* to write: node_data[i], cell_data[i], and for element i the two centre
\* slots of cell_data and the rows of cell_connectivity and weights
NextNodeWrites ==
    IF pc = "read_nodes" /\ k < num_node_vars * num_nodes THEN {k} ELSE {}

NextCellWrites ==
    IF pc = "read_cells" /\ k < num_cell_vars * num_cells THEN {k}
    ELSE IF pc = "elements" /\ k < num_cells
    THEN {z_ind * num_cells + k, r_ind * num_cells + k}
    ELSE {}

NextRowWrites ==
    IF pc = "elements" /\ k < num_cells
    THEN {j + cell_size * k : j \in 0..(cell_size - 1)}
    ELSE {}

\* the slots of interp_data the two memcpy calls and the loop write
InterpWrites ==
    IF pc = "interp"
    THEN Slots(2 * num_cells)
         \cup {cell + var * num_cells :
                 var \in 2..(num_node_vars - 1), cell \in Slots(num_cells)}
         \cup {num_node_vars * num_cells + x :
                 x \in Slots((num_cell_vars - 2) * num_cells)}
    ELSE {}

(* C22: for every well-formed frame (N, E and VARLOCATION present, at least  *)
(* two nodal variables, every connectivity value in [1, node_count]) every   *)
(* index read_tecplot_frame reads or writes NodeTable at lies in             *)
(* [0, node_count * node_var_count), every CellTable index in                *)
(* [0, element_count * cell_var_count), every Connectivity index in          *)
(* [0, 4 * element_count) and every InterpolatedTable index in               *)
(* [0, element_count * (node_var_count + cell_var_count - 2)).               *)
C22_IndicesInRange ==
    (frame_count = 0 /\ Intact /\ ConnInRange) =>
        /\ node_reads \subseteq Slots(inp.n * inp.nv)
        /\ NextNodeWrites \subseteq Slots(inp.n * inp.nv)
        /\ NextCellWrites \subseteq Slots(inp.e * (inp.nc + 2))
        /\ NextRowWrites \subseteq Slots(cell_size * inp.e)
        /\ InterpWrites \subseteq Slots(inp.e * (inp.nv + inp.nc))
        /\ pc /= "crashed"

=============================================================================
